---- MODULE Spec2Model ----
(***************************************************************************)
(* Multi-step research orchestrator.                                       *)
(*                                                                         *)
(*   - the edge function "perplexity-research" (the step interface): one   *)
(*     HTTP request executes one pipeline step, calling the provider       *)
(*     adapters callPerplexity / callGemini / callOpenAI;                  *)
(*   - the UI driver executeMultiStepResearch / handleSearch, which calls  *)
(*     the step interface once per step index and threads the responses    *)
(*     forward as previousData.                                            *)
(*                                                                         *)
(* JavaScript values: an object is a record whose absent properties are    *)
(* absent fields; a property that holds values of several types is tagged  *)
(* (Null, Arr(s), Num(n), Str(s)).  Fractions are integers in thousandths  *)
(* (confidence 0.75 is 750).  Non-ASCII text of the source is replaced by   *)
(* ASCII tags of the same multiplicity.  A response body is modelled in    *)
(* its serialized form: a property whose value is undefined is absent.     *)
(***************************************************************************)
EXTENDS Integers, Sequences, FiniteSets, TLC

VARIABLES
    \* ---- UI driver: React state of the component
    variant,          \* "graph" (part_000) or "plain" (part_001) driver
    query,            \* the text of the input field, a sequence of characters
    isLoading,
    progress,         \* a fraction [n, d] of 100 percent: n / d
    currentPhase,
    completedPhases,
    thinkingSteps,
    results,
    status,
    graphNodes,       \* the status of the phase nodes 0..4 (graph driver only)
    \* ---- UI driver: locals of the running executeMultiStepResearch
    pc,               \* position of the run
    stepIndex,
    thoughtIndex,
    allStepData,
    \* ---- one invocation of the edge function
    req,              \* the request being served, or NoReq
    hpc,              \* position of the handler
    calls,            \* the adapter calls of this invocation
    resp,             \* the response sent, or NoResp
    \* ---- observation
    issued,           \* the step indices of the step-interface calls issued by the run
    \* ---- the citation post-processing of callPerplexity applied on its own
    fnArg,            \* its input, or Null
    fnRet,            \* its output, or Null before it has run
    \* ---- a second call of executeMultiStepResearch that overlaps the first
    other             \* the locals and the edge-function invocation of the run
                      \* whose continuation is not the one running, or NoRun

driverVars == <<variant, query, isLoading, progress, currentPhase, completedPhases,
                thinkingSteps, results, status, graphNodes, pc, stepIndex, thoughtIndex,
                allStepData, issued>>
handlerVars == <<req, hpc, calls, resp>>
pureVars == <<fnArg, fnRet>>
vars == <<variant, query, isLoading, progress, currentPhase, completedPhases,
          thinkingSteps, results, status, graphNodes, pc, stepIndex, thoughtIndex,
          allStepData, issued, req, hpc, calls, resp, fnArg, fnRet, other>>

----------------------------------------------------------------------------
(* Bounds *)

\* longest previousData list of a request sent by an arbitrary caller
MaxHistory == 2

----------------------------------------------------------------------------
(* JavaScript values *)

Null == [t |-> "null"]
Arr(s) == [t |-> "arr", v |-> s]
Num(n) == [t |-> "num", v |-> n]
Str(s) == [t |-> "str", v |-> s]
\* a JSON object that is not an array (used for a malformed previousData)
PlainObject == [t |-> "obj"]

IsNull(x) == "t" \in DOMAIN x /\ x.t = "null"
IsArray(x) == "t" \in DOMAIN x /\ x.t = "arr"
\* typeof x === "string"
IsString(x) == "t" \in DOMAIN x /\ x.t = "str"
Has(obj, f) == f \in DOMAIN obj

\* truthiness of a tagged value or object: null is falsy, arrays (also the
\* empty one) and objects are truthy
Truthy(x) == ~IsNull(x)

\* the result of a computation that may throw
Ok(v) == [ok |-> TRUE, v |-> v]
Throw(m) == [ok |-> FALSE, error |-> m]

----------------------------------------------------------------------------
(* Upstream providers *)

\* values of Math.random() in thousandths; the real range is [0, 1)
RandomDraws == {0, 990}

\* non-success HTTP statuses an upstream may answer with
FailStatuses == {500}

\* citation post-processing of callPerplexity; rnd[i] = <<r1, r2>> are the two
\* Math.random() draws for the citation at position i (1-based here, the
\* source's index is i - 1); scores are in thousandths.  A url is a tagged
\* value (Str, Num, Null) or absent: the source tests it with ! and typeof
EnhanceCitation_NoTypeof(citation, index, r1, r2) ==
    LET url == IF /\ Has(citation, "url")
                  /\ ~IsNull(citation.url)
                  /\ ~(IsString(citation.url) /\ citation.url.v = "")
               THEN citation.url ELSE Str("#")
        jit == 1000 - index * 100 + ((r1 * 200) \div 1000 - 100)
        relevanceScore == IF jit > 300 THEN jit ELSE 300
        tr == 900 - (r2 * 300) \div 1000
        trustScore == IF tr > 400 THEN tr ELSE 400
        category == IF Has(citation, "source") /\ citation.source # ""
                    THEN citation.source ELSE "web"
    IN  [url |-> url, relevanceScore |-> relevanceScore,
         trustScore |-> trustScore, category |-> category]
        @@ citation

EnhanceCitation(citation, index, r1, r2) ==
    LET url == IF /\ Has(citation, "url")
                  /\ IsString(citation.url)
                  /\ citation.url.v # ""
               THEN citation.url ELSE Str("#")
        jit == 1000 - index * 100 + ((r1 * 200) \div 1000 - 100)
        relevanceScore == IF jit > 300 THEN jit ELSE 300
        tr == 900 - (r2 * 300) \div 1000
        trustScore == IF tr > 400 THEN tr ELSE 400
        category == IF Has(citation, "source") /\ citation.source # ""
                    THEN citation.source ELSE "web"
    IN  [url |-> url, relevanceScore |-> relevanceScore,
         trustScore |-> trustScore, category |-> category]
        @@ citation

EnhanceCitations(result, rnd) ==
    IF Has(result, "citations")
    THEN [result EXCEPT !.citations =
            [i \in 1..Len(result.citations) |->
                EnhanceCitation(result.citations[i], i - 1, rnd[i][1], rnd[i][2])]]
    ELSE result

\* raw JSON bodies of the search provider
PerplexityUpstream ==
    { [choices |-> <<"p">>, usage |-> [total_tokens |-> 120]],
      [choices |-> <<"p">>, citations |-> <<>>],
      [choices |-> <<"p">>, citations |-> <<[title |-> "a"]>>,
       usage |-> [total_tokens |-> 120]] }

\* raw JSON bodies of the reasoning provider (generateContent: no usage field)
GeminiUpstream ==
    { [candidates |-> <<"g">>, usageMetadata |-> [totalTokenCount |-> 50]] }

\* raw JSON bodies of the classification provider (chat completion)
OpenAIUpstream ==
    { [choices |-> <<"o">>, usage |-> [total_tokens |-> 80]],
      [choices |-> <<"o">>] }

Slots == {"perplexity", "gemini", "openai"}

NoCall == [st |-> "none"]
Pending(args) == [st |-> "pending", args |-> args]
Resolved(v) == [st |-> "resolved", v |-> v]
Rejected(m) == [st |-> "rejected", error |-> m]

\* callPerplexity after its fetch has returned: the promise it settles with
callPerplexity ==
    { Rejected(<<"Perplexity API error: ", s>>) : s \in FailStatuses }
    \cup
    UNION { { Resolved(EnhanceCitations(raw, rnd)) :
                rnd \in [1..(IF Has(raw, "citations") THEN Len(raw.citations) ELSE 0)
                            -> RandomDraws \X RandomDraws] } :
            raw \in PerplexityUpstream }

callGemini ==
    { Rejected(<<"Gemini API error: ", s>>) : s \in FailStatuses }
    \cup { Resolved(raw) : raw \in GeminiUpstream }

callOpenAI ==
    { Rejected(<<"OpenAI API error: ", s>>) : s \in FailStatuses }
    \cup { Resolved(raw) : raw \in OpenAIUpstream }

Settlements(slot) ==
    CASE slot = "perplexity" -> callPerplexity
      [] slot = "gemini" -> callGemini
      [] slot = "openai" -> callOpenAI

----------------------------------------------------------------------------
(* The edge function: pure parts *)

researchSteps ==
    <<"initial_research", "deep_analysis", "classification_tagging",
      "synthesis_validation", "final_report">>

\* const { query, step = 0, previousData = null } = await req.json()
ReqStep(r) == IF Has(r, "step") THEN r.step ELSE 0
ReqPreviousData(r) == IF Has(r, "previousData") THEN r.previousData ELSE Null
\* const { query, step, previousData } = await req.json(): a body that is no
\* JSON text makes req.json() reject, a body that is the JSON null makes the
\* destructuring throw; r.body is present for these two kinds of body only
ParseBody(r) ==
    IF ~Has(r, "body") THEN Ok(r)
    ELSE IF r.body = "unparsable" THEN Throw(<<"SyntaxError: Unexpected token">>)
    ELSE Throw(<<"TypeError: Cannot destructure">>)

\* query === undefined
QueryMissing_UndefinedOnly(r) == ~Has(r, "query")

\* !query
QueryMissing(r) == ~Has(r, "query") \/ r.query = <<>>

\* a step index clamped into 0..4
currentStep_Clamped(step) ==
    IF step < 0 THEN researchSteps[1]
    ELSE IF step > Len(researchSteps) - 1 THEN researchSteps[Len(researchSteps)]
    ELSE researchSteps[step + 1]

\* researchSteps[step] || "initial_research"
currentStep(step) ==
    IF step \in 0..(Len(researchSteps) - 1)
    THEN researchSteps[step + 1]
    ELSE "initial_research"

\* the aiThoughts literal of each branch: 5, 6, 6, 6, 6 strings
aiThoughts(i) ==
    [k \in 1..(IF i = 0 THEN 5 ELSE 6) |-> <<"thought", i, k>>]

\* if (!data || data.length === 0) return []
generateCrossReferences_EmptyToo(data) ==
    IF ~Truthy(data) \/ (IsArray(data) /\ Len(data.v) = 0) THEN <<>>
    ELSE << [type |-> "fact_verification", confidence |-> 920,
             sources |-> <<"Perplexity", "Gemini">>],
            [type |-> "semantic_consistency", confidence |-> 880,
             sources |-> <<"Gemini", "OpenAI">>],
            [type |-> "classification_accuracy", confidence |-> 950,
             sources |-> <<"OpenAI", "Perplexity">>] >>

generateCrossReferences(data) ==
    IF ~Truthy(data) THEN <<>>
    ELSE << [type |-> "fact_verification", confidence |-> 920,
             sources |-> <<"Perplexity", "Gemini">>],
            [type |-> "semantic_consistency", confidence |-> 880,
             sources |-> <<"Gemini", "OpenAI">>],
            [type |-> "classification_accuracy", confidence |-> 950,
             sources |-> <<"OpenAI", "Perplexity">>] >>

\* the report literal generateFinalReport starts from
EmptyReport(q) ==
    [query |-> q, timestamp |-> "now", totalSources |-> 0, totalTokens |-> 0,
     researchSteps |-> <<>>, keyFindings |-> <<>>,
     knowledgeGraph |-> [nodes |-> <<>>, edges |-> <<>>, topics |-> <<>>],
     qualityMetrics |-> [factualAccuracy |-> 950, sourceReliability |-> 880,
                         analysisDepth |-> 920, synthesisQuality |-> 900],
     recommendations |-> <<"r1", "r2", "r3">>]

\* a count that also descends into data.validation
CitationsOf_WithValidation(stepData) ==
    IF Has(stepData, "data") /\ Truthy(stepData.data)
    THEN (IF Has(stepData.data, "citations")
          THEN Len(stepData.data.citations) ELSE 0)
         + (IF Has(stepData.data, "validation")
               /\ Has(stepData.data.validation, "citations")
            THEN Len(stepData.data.validation.citations) ELSE 0)
    ELSE 0

\* stepData.data && stepData.data.citations : the citation count to add
CitationsOf(stepData) ==
    IF Has(stepData, "data") /\ Truthy(stepData.data)
       /\ Has(stepData.data, "citations")
    THEN Len(stepData.data.citations) ELSE 0

\* the usage test nested inside the citations test
TokensOf_InsideCitations(stepData) ==
    IF Has(stepData, "data") /\ Truthy(stepData.data)
       /\ Has(stepData.data, "citations")
       /\ Has(stepData.data, "usage")
       /\ Has(stepData.data.usage, "total_tokens")
    THEN stepData.data.usage.total_tokens ELSE 0

\* stepData.data && stepData.data.usage : usage.total_tokens || 0
TokensOf(stepData) ==
    IF Has(stepData, "data") /\ Truthy(stepData.data)
       /\ Has(stepData.data, "usage")
       /\ Has(stepData.data.usage, "total_tokens")
    THEN stepData.data.usage.total_tokens ELSE 0

\* a builder that falls back on metadata.finalConfidence before 0.8
ConfidenceOf_FinalToo(stepData) ==
    IF Has(stepData, "metadata") /\ Has(stepData.metadata, "confidence")
       /\ stepData.metadata.confidence # 0
    THEN stepData.metadata.confidence
    ELSE IF Has(stepData, "metadata")
            /\ Has(stepData.metadata, "finalConfidence")
         THEN stepData.metadata.finalConfidence ELSE 800

\* stepData.metadata?.confidence || 0.8
ConfidenceOf(stepData) ==
    IF Has(stepData, "metadata") /\ Has(stepData.metadata, "confidence")
       /\ stepData.metadata.confidence # 0
    THEN stepData.metadata.confidence ELSE 800

\* the object pushed to report.researchSteps, as serialized
StepSummary(stepData) ==
    [confidence |-> ConfidenceOf(stepData)]
    @@ (IF Has(stepData, "step") THEN [step |-> stepData.step] ELSE <<>>)
    @@ (IF Has(stepData, "service") THEN [service |-> stepData.service] ELSE <<>>)

\* the push nested inside the citations test
AggregateStep_PushInsideIf(report, stepData) ==
    [report EXCEPT
        !.totalSources = @ + CitationsOf(stepData),
        !.totalTokens = @ + TokensOf(stepData),
        !.researchSteps = IF Has(stepData, "data") /\ Truthy(stepData.data)
                             /\ Has(stepData.data, "citations")
                          THEN Append(@, StepSummary(stepData)) ELSE @]

\* one iteration of allData.forEach
AggregateStep(report, stepData) ==
    [report EXCEPT
        !.totalSources = @ + CitationsOf(stepData),
        !.totalTokens = @ + TokensOf(stepData),
        !.researchSteps = Append(@, StepSummary(stepData))]

RECURSIVE ForEachStep(_, _, _)
\* allData.forEach from position i on; reading a property of a null entry throws
ForEachStep(report, allData, i) ==
    IF i > Len(allData) THEN Ok(report)
    ELSE IF IsNull(allData[i])
         THEN Throw(<<"TypeError: Cannot read properties of null">>)
         ELSE ForEachStep(AggregateStep(report, allData[i]), allData, i + 1)

\* without the guard allData && Array.isArray(allData)
generateFinalReport_NoGuard(q, allData) ==
    IF IsArray(allData)
    THEN ForEachStep(EmptyReport(q), allData.v, 1)
    ELSE Throw(<<"TypeError: allData.forEach is not a function">>)

generateFinalReport(q, allData) ==
    IF Truthy(allData) /\ IsArray(allData)
    THEN ForEachStep(EmptyReport(q), allData.v, 1)
    ELSE Ok(EmptyReport(q))

----------------------------------------------------------------------------
(* The edge function: the result of each branch *)

\* perplexityResponse.citations?.length || 0
sourcesFound(p) == IF Has(p, "citations") THEN Len(p.citations) ELSE 0
\* perplexityResponse.usage?.total_tokens || 0
tokensUsed(p) ==
    IF Has(p, "usage") /\ Has(p.usage, "total_tokens") THEN p.usage.total_tokens ELSE 0

\* a service name taken from what the provider answered
InitialResearchResult_ServiceFromPayload(perplexityResponse) ==
    [step |-> 0, stepName |-> "Nachalnoe issledovanie",
     service |-> IF Has(perplexityResponse, "citations")
                 THEN "Perplexity (citations)" ELSE "Perplexity",
     data |-> perplexityResponse, nextStep |-> Num(1), progress |-> 20,
     aiThoughts |-> aiThoughts(0),
     metadata |-> [sourcesFound |-> sourcesFound(perplexityResponse),
                   tokensUsed |-> tokensUsed(perplexityResponse),
                   confidence |-> 750]]

InitialResearchResult(perplexityResponse) ==
    [step |-> 0, stepName |-> "Nachalnoe issledovanie", service |-> "Perplexity",
     data |-> perplexityResponse, nextStep |-> Num(1), progress |-> 20,
     aiThoughts |-> aiThoughts(0),
     metadata |-> [sourcesFound |-> sourcesFound(perplexityResponse),
                   tokensUsed |-> tokensUsed(perplexityResponse),
                   confidence |-> 750]]

\* a deep_analysis result that leaves the echo out
DeepAnalysisResult_NoEcho(geminiResponse, previousData) ==
    [step |-> 1, stepName |-> "Glubokij analiz", service |-> "Gemini",
     data |-> geminiResponse,
     nextStep |-> Num(2), progress |-> 40, aiThoughts |-> aiThoughts(1),
     metadata |-> [conceptsAnalyzed |-> 15, connectionsFound |-> 8,
                   confidence |-> 850]]

DeepAnalysisResult(geminiResponse, previousData) ==
    [step |-> 1, stepName |-> "Glubokij analiz", service |-> "Gemini",
     data |-> geminiResponse, previousData |-> previousData,
     nextStep |-> Num(2), progress |-> 40, aiThoughts |-> aiThoughts(1),
     metadata |-> [conceptsAnalyzed |-> 15, connectionsFound |-> 8,
                   confidence |-> 850]]

\* a wrong checkpoint
ClassificationTaggingResult_Progress(openaiResponse, previousData) ==
    [step |-> 2, stepName |-> "Klassifikacija i tegirovanie", service |-> "OpenAI GPT-4",
     data |-> openaiResponse, previousData |-> previousData,
     nextStep |-> Num(3), progress |-> 90, aiThoughts |-> aiThoughts(2),
     metadata |-> [tagsGenerated |-> 25, categoriesCreated |-> 6,
                   confidence |-> 900]]

ClassificationTaggingResult(openaiResponse, previousData) ==
    [step |-> 2, stepName |-> "Klassifikacija i tegirovanie", service |-> "OpenAI GPT-4",
     data |-> openaiResponse, previousData |-> previousData,
     nextStep |-> Num(3), progress |-> 65, aiThoughts |-> aiThoughts(2),
     metadata |-> [tagsGenerated |-> 25, categoriesCreated |-> 6,
                   confidence |-> 900]]

SynthesisValidationResult(perplexityValidation, geminiSynthesis, previousData) ==
    [step |-> 3, stepName |-> "Sintez i validacija",
     service |-> "Multi-AI (Perplexity + Gemini)",
     data |-> [validation |-> perplexityValidation,
               synthesis |-> geminiSynthesis,
               crossReferences |-> generateCrossReferences(previousData)],
     previousData |-> previousData,
     nextStep |-> Num(4), progress |-> 85, aiThoughts |-> aiThoughts(3),
     metadata |-> [factsValidated |-> 45, contradictionsResolved |-> 3,
                   finalConfidence |-> 950]]

FinalReportResult(finalReport, previousData) ==
    [step |-> 4, stepName |-> "Finalnyj otchet", service |-> "Research Orchestrator",
     data |-> finalReport, previousData |-> previousData,
     nextStep |-> Null, progress |-> 100, aiThoughts |-> aiThoughts(4),
     metadata |-> [totalSources |-> finalReport.totalSources,
                   totalTokens |-> finalReport.totalTokens,
                   researchQuality |-> 980]]

----------------------------------------------------------------------------
(* The edge function: the handler *)

NoReq == [t |-> "none"]
NoRun == [t |-> "none"]
NoResp == [t |-> "none"]
Response(st, body) == [status |-> st, body |-> body]
IsResponse(r) == "status" \in DOMAIN r

FreshCalls == [s \in Slots |-> NoCall]
PendingSlots(c) == {s \in Slots : c[s].st = "pending"}

\* the two calls of synthesis_validation awaited one after the other: only
\* the first is issued before the first await
IssueCalls_Sequential(r) ==
    LET cs == currentStep(ReqStep(r))
        previousData == ReqPreviousData(r)
        search == Pending([query |-> r.query, systemMessage |-> cs])
        withContext == Pending([query |-> r.query, previousData |-> previousData,
                                systemMessage |-> cs])
    IN  CASE cs = "initial_research" -> [FreshCalls EXCEPT !["perplexity"] = search]
          [] cs = "deep_analysis" -> [FreshCalls EXCEPT !["gemini"] = withContext]
          [] cs = "classification_tagging" -> [FreshCalls EXCEPT !["openai"] = withContext]
          [] cs = "synthesis_validation" -> [FreshCalls EXCEPT !["perplexity"] = search]
          [] cs = "final_report" -> FreshCalls

\* a classification call that is given no history
IssueCalls_NoContext(r) ==
    LET cs == currentStep(ReqStep(r))
        previousData == ReqPreviousData(r)
        search == Pending([query |-> r.query, systemMessage |-> cs])
        withContext == Pending([query |-> r.query, previousData |-> previousData,
                                systemMessage |-> cs])
        noContext == Pending([query |-> r.query, previousData |-> Null,
                              systemMessage |-> cs])
    IN  CASE cs = "initial_research" -> [FreshCalls EXCEPT !["perplexity"] = search]
          [] cs = "deep_analysis" -> [FreshCalls EXCEPT !["gemini"] = withContext]
          [] cs = "classification_tagging" -> [FreshCalls EXCEPT !["openai"] = noContext]
          [] cs = "synthesis_validation" ->
                [FreshCalls EXCEPT !["perplexity"] = search, !["gemini"] = withContext]
          [] cs = "final_report" -> FreshCalls

\* the adapter calls a branch issues before its first await
IssueCalls(r) ==
    LET cs == currentStep(ReqStep(r))
        previousData == ReqPreviousData(r)
        search == Pending([query |-> r.query, systemMessage |-> cs])
        withContext == Pending([query |-> r.query, previousData |-> previousData,
                                systemMessage |-> cs])
    IN  CASE cs = "initial_research" -> [FreshCalls EXCEPT !["perplexity"] = search]
          [] cs = "deep_analysis" -> [FreshCalls EXCEPT !["gemini"] = withContext]
          [] cs = "classification_tagging" -> [FreshCalls EXCEPT !["openai"] = withContext]
          [] cs = "synthesis_validation" ->
                [FreshCalls EXCEPT !["perplexity"] = search, !["gemini"] = withContext]
          [] cs = "final_report" -> FreshCalls

\* the slots a branch awaits
Awaited(cs) ==
    CASE cs = "initial_research" -> {"perplexity"}
      [] cs = "deep_analysis" -> {"gemini"}
      [] cs = "classification_tagging" -> {"openai"}
      [] cs = "synthesis_validation" -> {"perplexity", "gemini"}
      [] cs = "final_report" -> {}

\* await of one call, or of Promise.all([...]): it settles when every awaited
\* call has resolved, or as soon as one of them has rejected
AwaitSettled(cs, c) ==
    \/ \A s \in Awaited(cs) : c[s].st = "resolved"
    \/ \E s \in Awaited(cs) : c[s].st = "rejected"

\* the result of a branch whose calls all resolved
BranchResult(r, c) ==
    LET cs == currentStep(ReqStep(r))
        previousData == ReqPreviousData(r)
    IN  CASE cs = "initial_research" -> InitialResearchResult(c["perplexity"].v)
          [] cs = "deep_analysis" -> DeepAnalysisResult(c["gemini"].v, previousData)
          [] cs = "classification_tagging" ->
                ClassificationTaggingResult(c["openai"].v, previousData)
          [] cs = "synthesis_validation" ->
                SynthesisValidationResult(c["perplexity"].v, c["gemini"].v, previousData)

\* a catch that answers 200 with a StepResult marked as failed
Continue_FailedMarker(r, c) ==
    LET cs == currentStep(ReqStep(r))
    IN  IF \E s \in Awaited(cs) : c[s].st = "rejected"
        THEN Response(200,
                [step |-> ReqStep(r), service |-> "failed",
                 data |-> [failed |-> TRUE,
                           error |-> c[CHOOSE s \in Awaited(cs) :
                                            c[s].st = "rejected"].error]])
        ELSE Response(200, BranchResult(r, c))

\* a synthesis_validation that answers 200 with the results it has when one
\* of its two calls failed
Continue_Partial(r, c) ==
    LET cs == currentStep(ReqStep(r))
    IN  IF \E s \in Awaited(cs) : c[s].st = "rejected"
        THEN IF cs = "synthesis_validation"
             THEN Response(200,
                    [step |-> 3, service |-> "Multi-AI (Perplexity + Gemini)",
                     data |-> [partial |-> TRUE]])
             ELSE Response(500,
                    [error |-> c[CHOOSE s \in Awaited(cs) : c[s].st = "rejected"].error])
        ELSE Response(200, BranchResult(r, c))

\* no try/catch around the handler's body: the exception leaves the handler
\* and no response is built
CatchBlock_Escape(m) == NoResp

\* the catch block of the handler
CatchBlock(m) == Response(500, [error |-> m])

\* the handler from the settled await to its return: the branch's result with
\* status 200, or the catch block's status 500
Continue(r, c) ==
    LET cs == currentStep(ReqStep(r))
    IN  IF \E s \in Awaited(cs) : c[s].st = "rejected"
        THEN CatchBlock(c[CHOOSE s \in Awaited(cs) : c[s].st = "rejected"].error)
        ELSE Response(200, BranchResult(r, c))

\* Deno.serve handler, from the arrival of the request to its first await or
\* to its return
HandlerEnter ==
    /\ hpc = "recv"
    /\ IF req.method = "OPTIONS"
       THEN /\ resp' = Response(200, [text |-> "ok"])
            /\ hpc' = "done"
            /\ calls' = FreshCalls
       ELSE IF ~ParseBody(req).ok
       THEN /\ resp' = CatchBlock(ParseBody(req).error)
            /\ hpc' = "done"
            /\ calls' = FreshCalls
       ELSE IF QueryMissing(req)
       THEN /\ resp' = Response(400, [error |-> <<"Query is required">>])
            /\ hpc' = "done"
            /\ calls' = FreshCalls
       ELSE IF currentStep(ReqStep(req)) = "final_report"
       THEN LET finalReport == generateFinalReport(req.query, ReqPreviousData(req))
            IN  /\ resp' = IF finalReport.ok
                           THEN Response(200, FinalReportResult(finalReport.v,
                                                    ReqPreviousData(req)))
                           ELSE CatchBlock(finalReport.error)
                /\ hpc' = "done"
                /\ calls' = FreshCalls
       ELSE /\ calls' = IssueCalls(req)
            /\ hpc' = "await"
            /\ resp' = NoResp
    /\ UNCHANGED <<req, driverVars, pureVars, other>>

\* an upstream answers an adapter call; when that settles the handler's await,
\* the handler runs on to its return; the answer to a call nobody awaits any
\* more (Promise.all has already rejected) is dropped
AdapterSettle(slot) ==
    /\ calls[slot].st = "pending"
    /\ \E out \in Settlements(slot) :
         IF hpc = "await"
         THEN LET c2 == [calls EXCEPT ![slot] = out]
              IN  /\ calls' = c2
                  /\ IF AwaitSettled(currentStep(ReqStep(req)), c2)
                     THEN /\ resp' = Continue(req, c2)
                          /\ hpc' = "done"
                     ELSE UNCHANGED <<resp, hpc>>
         ELSE /\ calls' = [calls EXCEPT ![slot] = [st |-> "dropped", was |-> out.st]]
              /\ UNCHANGED <<resp, hpc>>
    /\ UNCHANGED <<req, driverVars, pureVars, other>>

----------------------------------------------------------------------------
(* The UI driver *)

QuerySamples == { <<>>, <<" ">>, <<"c", "p">> }

\* 1/ProgressUnit percent is the unit of progress: every value
\* ((stepIndex + (thoughtIndex + 1) / thoughts.length) / 5) * 100 is a whole
\* number of units for thoughts.length in 5..8
ProgressUnit == 840

\* researchSteps[i].thoughts.length of the driver
ThoughtCount(v, i) ==
    IF v = "graph" THEN <<6, 7, 7, 8, 6>>[i + 1] ELSE <<5, 6, 6, 6, 6>>[i + 1]

\* researchSteps[i].service of the driver
StepService(i) ==
    <<"Perplexity", "Gemini", "OpenAI GPT-4", "Multi-AI", "Research Orchestrator">>[i + 1]

NumSteps == 5

StatusOf(i) ==
    IF i = 0 THEN "thinking"
    ELSE IF i = 1 THEN "fetching"
    ELSE IF i = 2 THEN "synthesizing" ELSE "thinking"

RECURSIVE TrimStart(_)
\* the phase nodes after the mount effect: all pending
InitialNodes == [i \in 0..(NumSteps - 1) |-> "pending"]

\* updateGraphNodeStatus(phaseIndex, status); the plain driver has no graph
updateGraphNodeStatus(v, nodes, phaseIndex, st) ==
    IF v = "graph" THEN [nodes EXCEPT ![phaseIndex] = st] ELSE nodes

\* the node marked completed inside the try block only
AfterIteration_CompletedInTry(v, nodes, i, failed) ==
    IF failed THEN updateGraphNodeStatus(v, nodes, i, "error")
    ELSE updateGraphNodeStatus(v, nodes, i, "completed")

\* the node of the step from the return of its call to the pause: "error" in
\* the catch block, then "completed" after the try statement
AfterIteration(v, nodes, i, failed) ==
    updateGraphNodeStatus(v,
        IF failed THEN updateGraphNodeStatus(v, nodes, i, "error") ELSE nodes,
        i, "completed")

TrimStart(str) ==
    IF str # <<>> /\ Head(str) = " " THEN TrimStart(Tail(str)) ELSE str
RECURSIVE TrimEnd(_)
TrimEnd(str) ==
    IF str # <<>> /\ str[Len(str)] = " "
    THEN TrimEnd(SubSeq(str, 1, Len(str) - 1)) ELSE str
\* String.prototype.trim
Trim(str) == TrimEnd(TrimStart(str))

\* onChange of the input field, while no run is in progress
setQuery ==
    /\ pc \in {"idle", "ready"}
    /\ \E q \in QuerySamples : q # query /\ query' = q
    /\ UNCHANGED <<pureVars, other>>
    /\ UNCHANGED graphNodes
    /\ UNCHANGED <<variant, isLoading, progress, currentPhase, completedPhases,
                   thinkingSteps, results, status, pc, stepIndex, thoughtIndex,
                   allStepData, issued, handlerVars>>

\* handleSearch and executeMultiStepResearch up to the first timer of the
\* thought loop
handleSearch ==
    /\ pc \in {"idle", "ready"}
    /\ Trim(query) # <<>>
    /\ isLoading' = TRUE
    /\ progress' = 0
    /\ currentPhase' = 0
    /\ completedPhases' = <<>>
    /\ thinkingSteps' = <<>>
    /\ results' = Null
    /\ allStepData' = <<>>
    /\ stepIndex' = 0
    /\ status' = StatusOf(0)
    /\ graphNodes' = updateGraphNodeStatus(variant, graphNodes, 0, "active")
    /\ thoughtIndex' = 0
    /\ issued' = <<>>
    /\ pc' = "thought"
    /\ UNCHANGED <<pureVars, other>>
    /\ UNCHANGED <<variant, query, handlerVars>>

\* the body of the step-interface call with a stale step index
InvokeBody_StaleStep(q, i, data) ==
    [method |-> "POST", query |-> q, step |-> 0,
     previousData |-> IF Len(data) > 0 THEN Arr(data) ELSE Null]

\* the body of the step-interface call with only the latest result as
\* previousData
InvokeBody_LastOnly(q, i, data) ==
    [method |-> "POST", query |-> q, step |-> i,
     previousData |-> IF Len(data) > 0 THEN Arr(<<data[Len(data)]>>) ELSE Null]

\* the body of the step-interface call: { query, step: stepIndex,
\* previousData: allStepData.length > 0 ? allStepData : null }
InvokeBody(q, i, data) ==
    [method |-> "POST", query |-> q, step |-> i,
     previousData |-> IF Len(data) > 0 THEN Arr(data) ELSE Null]

\* the progress of the step alone shown as the overall progress:
\* ((thoughtIndex + 1) / n) * 100
overallProgress_StepOnly(i, ti, n) ==
    (((ti + 1) * 100) * ProgressUnit) \div n

\* overallProgress = ((stepIndex + (thoughtIndex + 1) / n) / 5) * 100, in
\* units of 1 / ProgressUnit percent
overallProgress(i, ti, n) ==
    (((i * n + ti + 1) * 100) * ProgressUnit) \div (NumSteps * n)

\* a timer of the thought loop fires: one thought is shown; after the last
\* thought of the step the step-interface call is issued
thoughtTimer ==
    /\ pc = "thought"
    /\ LET n == ThoughtCount(variant, stepIndex)
       IN  /\ thinkingSteps' = Append(thinkingSteps,
                                  <<StepService(stepIndex), "thought", thoughtIndex>>)
           /\ progress' = overallProgress(stepIndex, thoughtIndex, n)
           /\ IF thoughtIndex + 1 < n
              THEN /\ thoughtIndex' = thoughtIndex + 1
                   /\ UNCHANGED <<pc, issued, handlerVars>>
              ELSE /\ thoughtIndex' = thoughtIndex + 1
                   /\ req' = InvokeBody(query, stepIndex, allStepData)
                   /\ hpc' = "recv"
                   /\ resp' = NoResp
                   /\ issued' = Append(issued, req'.step)
                   /\ pc' = "invoke"
                   /\ UNCHANGED calls
    /\ UNCHANGED <<pureVars, other>>
    /\ UNCHANGED graphNodes
    /\ UNCHANGED <<variant, query, isLoading, currentPhase, completedPhases,
                   results, status, stepIndex, allStepData>>

\* a catch block that lets the error escape the loop: the run is over
AfterCatch_Rethrow == "ready"

\* a catch block that tries the failed step again
AfterCatch_Retry == "thought"

\* a catch block that awaits a retry nobody triggers
AfterCatch_Hang == "invoke"

\* where the run goes on after the catch block of the loop body: the error is
\* swallowed, the iteration is completed like a successful one
AfterCatch == "pause"

\* allStepData.push(data) placed before if (error) throw error: a failed call
\* pushes its null data
invokeReturn_PushFirst ==
    /\ pc = "invoke"
    /\ hpc = "done"
    /\ IF resp.status \in 200..299
       THEN /\ allStepData' = Append(allStepData, resp.body)
            /\ thinkingSteps' = thinkingSteps \o
                    << <<StepService(stepIndex), "ok", 1>>,
                       <<StepService(stepIndex), "ok", 2>> >>
       ELSE /\ allStepData' = Append(allStepData, Null)
            /\ thinkingSteps' = thinkingSteps \o
                    << <<StepService(stepIndex), "error", 1>>,
                       <<StepService(stepIndex), "error", 2>> >>
    /\ graphNodes' = AfterIteration(variant, graphNodes, stepIndex,
                                    resp.status \notin 200..299)
    /\ completedPhases' = Append(completedPhases, stepIndex)
    /\ req' = NoReq
    /\ resp' = NoResp
    /\ hpc' = "idle"
    /\ pc' = IF resp.status \in 200..299 THEN "pause" ELSE AfterCatch
    /\ UNCHANGED <<pureVars, other>>
    /\ UNCHANGED <<variant, query, isLoading, progress, currentPhase, results,
                   status, stepIndex, thoughtIndex, issued, calls>>

\* supabase.functions.invoke returns: { data, error: null } for a 2xx
\* response, { data: null, error } otherwise; then the try/catch of the loop
\* body and the statements up to the pause timer
invokeReturn ==
    /\ pc = "invoke"
    /\ hpc = "done"
    /\ IF resp.status \in 200..299
       THEN /\ allStepData' = Append(allStepData, resp.body)
            /\ thinkingSteps' = thinkingSteps \o
                    << <<StepService(stepIndex), "ok", 1>>,
                       <<StepService(stepIndex), "ok", 2>> >>
       ELSE /\ allStepData' = allStepData
            /\ thinkingSteps' = thinkingSteps \o
                    << <<StepService(stepIndex), "error", 1>>,
                       <<StepService(stepIndex), "error", 2>> >>
    /\ graphNodes' = AfterIteration(variant, graphNodes, stepIndex,
                                    resp.status \notin 200..299)
    /\ completedPhases' = Append(completedPhases, stepIndex)
    /\ req' = NoReq
    /\ resp' = NoResp
    /\ hpc' = "idle"
    /\ pc' = IF resp.status \in 200..299 THEN "pause" ELSE AfterCatch
    /\ UNCHANGED <<pureVars, other>>
    /\ UNCHANGED <<variant, query, isLoading, progress, currentPhase, results,
                   status, stepIndex, thoughtIndex, issued, calls>>

\* supabase.functions.invoke fails without a response of the edge function
\* (the request does not reach it): the catch block of the loop body
invokeFetchError ==
    /\ pc = "invoke"
    /\ hpc = "recv"
    /\ thinkingSteps' = thinkingSteps \o
            << <<StepService(stepIndex), "error", 1>>,
               <<StepService(stepIndex), "error", 2>> >>
    /\ graphNodes' = AfterIteration(variant, graphNodes, stepIndex, TRUE)
    /\ completedPhases' = Append(completedPhases, stepIndex)
    /\ req' = NoReq
    /\ resp' = NoResp
    /\ hpc' = "idle"
    /\ pc' = AfterCatch
    /\ UNCHANGED <<pureVars, other>>
    /\ UNCHANGED <<variant, query, isLoading, progress, currentPhase, results,
                   status, stepIndex, thoughtIndex, allStepData, issued, calls>>

\* the pause timer fires: the next iteration up to its first thought timer,
\* or, after the last iteration, the end of executeMultiStepResearch and of
\* handleSearch
pauseTimer ==
    /\ pc = "pause"
    /\ IF stepIndex + 1 < NumSteps
       THEN /\ stepIndex' = stepIndex + 1
            /\ currentPhase' = stepIndex + 1
            /\ status' = StatusOf(stepIndex + 1)
            /\ graphNodes' = updateGraphNodeStatus(variant, graphNodes,
                                                   stepIndex + 1, "active")
            /\ thoughtIndex' = 0
            /\ pc' = "thought"
            /\ UNCHANGED <<results, progress, isLoading>>
       ELSE /\ results' = IF Len(allStepData) > 0
                             /\ Has(allStepData[Len(allStepData)], "data")
                             /\ Truthy(allStepData[Len(allStepData)].data)
                          THEN allStepData[Len(allStepData)].data
                          ELSE results
            /\ status' = "ready"
            /\ UNCHANGED graphNodes
            /\ progress' = 100 * ProgressUnit
            /\ isLoading' = FALSE
            /\ stepIndex' = stepIndex + 1
            /\ pc' = "ready"
            /\ UNCHANGED <<currentPhase, thoughtIndex>>
    /\ UNCHANGED <<pureVars, other>>
    /\ UNCHANGED <<variant, query, completedPhases, thinkingSteps, allStepData,
                   issued, handlerVars>>

----------------------------------------------------------------------------
(* Specifications *)

\* the component after construction, the edge function idle
Init ==
    /\ variant \in {"graph", "plain"}
    /\ query = <<>>
    /\ isLoading = FALSE
    /\ progress = 0
    /\ currentPhase = 0
    /\ completedPhases = <<>>
    /\ thinkingSteps = <<>>
    /\ results = Null
    /\ status = "ready"
    /\ graphNodes = InitialNodes
    /\ pc = "idle"
    /\ stepIndex = 0
    /\ thoughtIndex = 0
    /\ allStepData = <<>>
    /\ issued = <<>>
    /\ req = NoReq
    /\ hpc = "idle"
    /\ calls = FreshCalls
    /\ resp = NoResp
    /\ fnArg = Null
    /\ fnRet = Null
    /\ other = NoRun

Next ==
    \/ setQuery
    \/ handleSearch
    \/ thoughtTimer
    \/ invokeReturn
    \/ invokeFetchError
    \/ pauseTimer
    \/ HandlerEnter
    \/ \E slot \in Slots : AdapterSettle(slot)

\* one UI driver and the edge function it calls
Spec == Init /\ [][Next]_vars

\* the same, with every timer firing and every call in flight settling: the
\* timers of setTimeout fire, supabase.functions.invoke resolves with the
\* response or fails, the edge function runs on a request it has received
\* and each provider fetch returns or fails
SpecFair ==
    /\ Init /\ [][Next]_vars
    /\ WF_vars(thoughtTimer)
    /\ WF_vars(pauseTimer)
    /\ WF_vars(invokeReturn)
    /\ WF_vars(HandlerEnter \/ invokeFetchError)
    /\ WF_vars(\E slot \in Slots : AdapterSettle(slot))

----------------------------------------------------------------------------
(* The step interface called by an arbitrary HTTP client *)

\* a step-0 result with 5 citations and 120 tokens
Entry0 ==
    InitialResearchResult(
        EnhanceCitations([choices |-> <<"p">>,
                          citations |-> [i \in 1..5 |-> [url |-> Str("https://a")]],
                          usage |-> [total_tokens |-> 120]],
                         [i \in 1..5 |-> <<0, 0>>]))
Entry1 ==
    DeepAnalysisResult([candidates |-> <<"g">>,
                        usageMetadata |-> [totalTokenCount |-> 50]], Arr(<<Entry0>>))
\* a step-2 result with no citations and 80 tokens
Entry2 ==
    ClassificationTaggingResult([choices |-> <<"o">>, usage |-> [total_tokens |-> 80]],
                                Arr(<<Entry0, Entry1>>))
Entry3 ==
    SynthesisValidationResult(
        EnhanceCitations([choices |-> <<"p">>, citations |-> <<[title |-> "a"]>>,
                          usage |-> [total_tokens |-> 120]],
                         <<<<990, 990>>>>),
        [candidates |-> <<"g">>], Arr(<<Entry0, Entry1, Entry2>>))
\* an entry whose usage has no total_tokens, and whose confidence is 0
EntryOdd ==
    [step |-> 2, data |-> [citations |-> <<>>, usage |-> [prompt_tokens |-> 7]],
     metadata |-> [confidence |-> 0]]
\* an object that is no StepResult
EntryBare == [note |-> "x"]

\* the elements a previousData list is drawn from; Null is a JSON null element
HistorySamples == {Entry0, Entry1, Entry2, Entry3, EntryOdd, EntryBare, Null}

\* the StepResults among them
IsStepResult(e) == Has(e, "step") /\ Has(e, "service") /\ Has(e, "data")

Histories == UNION { [1..n -> HistorySamples] : n \in 0..MaxHistory }

\* a request with the given optional body properties; o.has tells whether
\* the property is present
MakeRequest(q, st, pd) ==
    [f \in {"method"} \cup (IF q.has THEN {"query"} ELSE {})
                      \cup (IF st.has THEN {"step"} ELSE {})
                      \cup (IF pd.has THEN {"previousData"} ELSE {}) |->
        CASE f = "method" -> "POST"
          [] f = "query" -> q.v
          [] f = "step" -> st.v
          [] f = "previousData" -> pd.v]

Absent == [has |-> FALSE]
Present(v) == [has |-> TRUE, v |-> v]

RequestSamples ==
    { [method |-> "OPTIONS"] }
    \cup
    { [method |-> "POST", body |-> b] : b \in {"unparsable", "null"} }
    \cup
    { MakeRequest(q, st, pd) :
        q \in {Absent} \cup { Present(x) : x \in QuerySamples },
        st \in {Absent} \cup { Present(i) : i \in -1..5 },
        pd \in {Absent, Present(Null), Present(PlainObject)}
               \cup { Present(Arr(h)) : h \in Histories } }

InitHandler ==
    /\ variant = "plain"
    /\ query = <<>>
    /\ isLoading = FALSE
    /\ progress = 0
    /\ currentPhase = 0
    /\ completedPhases = <<>>
    /\ thinkingSteps = <<>>
    /\ results = Null
    /\ status = "ready"
    /\ graphNodes = InitialNodes
    /\ pc = "idle"
    /\ stepIndex = 0
    /\ thoughtIndex = 0
    /\ allStepData = <<>>
    /\ issued = <<>>
    /\ req \in RequestSamples
    /\ hpc = "recv"
    /\ calls = FreshCalls
    /\ resp = NoResp
    /\ fnArg = Null
    /\ fnRet = Null
    /\ other = NoRun

NextHandler ==
    \/ HandlerEnter
    \/ \E slot \in Slots : AdapterSettle(slot)

\* one invocation of the edge function with a request of any client
SpecHandler == InitHandler /\ [][NextHandler]_vars

----------------------------------------------------------------------------
(* The citation post-processing on any citation list *)

\* longest citation list of a search-provider body
MaxCitations == 2
\* largest citation position (0-based) of a single citation
MaxIndex == 8

\* values of Math.random() in thousandths for a single citation
DrawSamples == {0, 500, 990}

\* raw citation objects: a valid url, an empty one, none, null, a number,
\* and a valid one with a declared source
CitationSamples ==
    { [title |-> "a", url |-> Str("https://a")],
      [title |-> "b", url |-> Str("")],
      [title |-> "c"],
      [title |-> "d", url |-> Null],
      [title |-> "e", url |-> Num(42)],
      [title |-> "f", url |-> Str("https://f"), source |-> "news"] }

\* the inputs: a body with a citation list and the draws of each position, a
\* body without citations, or one citation at a position with its two draws
CitationArgs ==
    { [result |-> [choices |-> <<"p">>], rnd |-> <<>>] }
    \cup
    UNION { { [result |-> [choices |-> <<"p">>, citations |-> cs], rnd |-> rnd] :
                cs \in [1..n -> CitationSamples],
                rnd \in [1..n -> RandomDraws \X RandomDraws] } :
            n \in 0..MaxCitations }
    \cup
    { [citation |-> c, index |-> i, r1 |-> r1, r2 |-> r2] :
        c \in CitationSamples, i \in 0..MaxIndex,
        r1 \in DrawSamples, r2 \in DrawSamples }

InitCitations ==
    /\ variant = "plain"
    /\ query = <<>>
    /\ isLoading = FALSE
    /\ progress = 0
    /\ currentPhase = 0
    /\ completedPhases = <<>>
    /\ thinkingSteps = <<>>
    /\ results = Null
    /\ status = "ready"
    /\ graphNodes = InitialNodes
    /\ pc = "idle"
    /\ stepIndex = 0
    /\ thoughtIndex = 0
    /\ allStepData = <<>>
    /\ issued = <<>>
    /\ req = NoReq
    /\ hpc = "idle"
    /\ calls = FreshCalls
    /\ resp = NoResp
    /\ fnArg \in CitationArgs
    /\ fnRet = Null
    /\ other = NoRun

\* the post-processing block of callPerplexity on a whole body
postProcess ==
    /\ fnRet = Null
    /\ Has(fnArg, "result")
    /\ fnRet' = EnhanceCitations(fnArg.result, fnArg.rnd)
    /\ UNCHANGED <<fnArg, driverVars, handlerVars, other>>

\* the map callback of the post-processing on one citation
postProcessOne ==
    /\ fnRet = Null
    /\ Has(fnArg, "citation")
    /\ fnRet' = EnhanceCitation(fnArg.citation, fnArg.index, fnArg.r1, fnArg.r2)
    /\ UNCHANGED <<fnArg, driverVars, handlerVars, other>>

NextCitations ==
    \/ postProcess
    \/ postProcessOne

SpecCitations == InitCitations /\ [][NextCitations]_vars

----------------------------------------------------------------------------
(* Properties of the UI driver *)

Range(f) == { f[i] : i \in DOMAIN f }

\* a step-interface call of the run is outstanding
CallOutstanding == pc = "invoke"

\* the run has ended
RunEnded == pc = "ready"

\* C1: the step-interface calls of a run are issued in the order 0, 1, 2, 3, 4,
\* each index once, and no call is issued while the previous one has not
\* returned: the calls issued are one more than the calls returned exactly
\* while a call is outstanding, and a run that has ended has issued all five
C1_SequentialSteps ==
    /\ issued = [k \in 1..Len(issued) |-> k - 1]
    /\ Len(issued) <= NumSteps
    /\ Len(issued) = Len(completedPhases) + (IF CallOutstanding THEN 1 ELSE 0)
    /\ (req # NoReq) <=> CallOutstanding
    /\ (req # NoReq) => req.step = issued[Len(issued)]
    /\ RunEnded => issued = <<0, 1, 2, 3, 4>>

\* a run has ended in which some step calls failed and others succeeded
C1_Witness ==
    /\ RunEnded
    /\ issued = <<0, 1, 2, 3, 4>>
    /\ Len(allStepData) = 3

\* the steps whose call has succeeded so far
Succeeded == { allStepData[k].step : k \in 1..Len(allStepData) }

\* C3: whatever calls of steps 0..3 fail, the driver does not abort: no step
\* is passed over without its call, the step that follows a failed call is
\* entered like the one that follows a successful call, and a run that has
\* ended has issued the call of every step, the step-4 call included
C3_NoAbort ==
    /\ pc = "thought" => Len(issued) = stepIndex
    /\ pc \in {"invoke", "pause"} => Len(issued) = stepIndex + 1
    /\ RunEnded => \A i \in 0..4 : i \in Range(issued)
    /\ pc \in {"thought", "invoke", "pause"} => stepIndex \in 0..4 /\ isLoading

\* a run has ended in which the calls of steps 0..3 all failed and the step-4
\* call was issued and answered
C3_Witness ==
    /\ RunEnded
    /\ Succeeded = {4}
    /\ 4 \in Range(issued)

\* the value is a FinalReport
IsFinalReport(x) ==
    /\ ~IsNull(x)
    /\ Has(x, "totalSources") /\ Has(x, "totalTokens") /\ Has(x, "researchSteps")

\* C4: when a run ends, the results state is the FinalReport built by step 4,
\* for every failure pattern of the five step calls
C4_ResultsIsFinalReport ==
    RunEnded => IsFinalReport(results)

----------------------------------------------------------------------------
(* Properties of the step interface *)

\* the request is a well-formed call of the step interface
ValidRequest == req # NoReq /\ req.method = "POST" /\ ~QueryMissing(req)

\* the handler has returned
Responded == hpc = "done"

\* an adapter call the branch of the request awaits has failed
AdapterFailed ==
    \E s \in Awaited(currentStep(ReqStep(req))) : calls[s].st = "rejected"

\* the message of the failed adapter call
AdapterError ==
    calls[CHOOSE s \in Awaited(currentStep(ReqStep(req))) : calls[s].st = "rejected"].error

\* the response carries a StepResult of step i
RespondsStepResult(i) ==
    /\ resp.status = 200
    /\ IsStepResult(resp.body)
    /\ resp.body.step = i

\* the response is the catch block's: status 500, body { error }, no StepResult
RespondsError(m) ==
    /\ resp.status = 500
    /\ ~IsStepResult(resp.body)
    /\ Has(resp.body, "error") /\ resp.body.error = m

Step3Calls == calls["perplexity"].st # "none" /\ calls["gemini"].st # "none"

CallSucceeded(s) ==
    \/ calls[s].st = "resolved"
    \/ calls[s].st = "dropped" /\ calls[s].was = "resolved"

CallFailed(s) ==
    \/ calls[s].st = "rejected"
    \/ calls[s].st = "dropped" /\ calls[s].was = "rejected"

\* exactly one of the two concurrent calls of the run's step 3 failed and the
\* other succeeded
ExactlyOneFailed3 ==
    /\ 3 \in Range(issued)
    /\ Step3Calls
    /\ \/ CallFailed("perplexity") /\ CallSucceeded("gemini")
       \/ CallSucceeded("perplexity") /\ CallFailed("gemini")

\* after a failed step 3 the run goes on to step 4
ProceedsToStep4 ==
    \/ stepIndex = 3 /\ pc \in {"invoke", "pause"}
    \/ stepIndex = 4 /\ pc \in {"thought", "invoke", "pause"}
    \/ RunEnded /\ 4 \in Range(issued)

Step3Request == ValidRequest /\ ReqStep(req) = 3

\* C6 as claimed: at step 3 both adapter calls are issued before either is
\* awaited, and the response is never sent while one of them is outstanding
C6_JoinAlways ==
    Step3Request =>
        /\ hpc = "await" => Step3Calls
        /\ Responded => PendingSlots(calls) = {}

\* C6: at step 3 both adapter calls are issued before either is awaited; a
\* 200 response is sent only when both calls have completed; when a call
\* fails the 500 response is sent at once, and it is the only response that
\* can be sent while the other call is still outstanding
C6_JoinOnSuccess ==
    Step3Request =>
        /\ hpc = "await" => Step3Calls /\ ~AdapterFailed
        /\ (Responded /\ resp.status = 200) =>
                calls["perplexity"].st = "resolved" /\ calls["gemini"].st = "resolved"
        /\ (Responded /\ PendingSlots(calls) # {}) =>
                /\ resp.status = 500
                /\ Cardinality({s \in Slots : calls[s].st = "rejected"}) = 1

\* the 500 response of a step-3 invocation is sent while a call is outstanding
C6_Witness ==
    /\ Step3Request /\ Responded
    /\ resp.status = 500
    /\ calls["perplexity"].st = "rejected"
    /\ calls["gemini"].st = "pending"

\* the checkpoint table
Checkpoint == <<20, 40, 65, 85, 100>>

\* C7: a successful invocation with step = i in 0..4 returns step = i, the
\* progress checkpoint 20, 40, 65, 85, 100 of i, and nextStep = i + 1 (null
\* for i = 4); the checkpoints of the results a run collects do not decrease
C7_Checkpoints ==
    /\ (Responded /\ ValidRequest /\ ReqStep(req) \in 0..4 /\ resp.status = 200) =>
            /\ resp.body.step = ReqStep(req)
            /\ resp.body.progress = Checkpoint[ReqStep(req) + 1]
            /\ resp.body.nextStep = IF ReqStep(req) < 4 THEN Num(ReqStep(req) + 1)
                                    ELSE Null
    /\ \A k \in 1..Len(allStepData) :
            /\ allStepData[k].progress = Checkpoint[allStepData[k].step + 1]
            /\ k > 1 => allStepData[k - 1].progress <= allStepData[k].progress

\* a run has collected the results of steps 0..3 and step 3 has just answered
C7_Witness ==
    /\ pc = "pause" /\ stepIndex = 3
    /\ Len(allStepData) = 4
    /\ allStepData[4].progress = 85
    /\ allStepData[4].nextStep = Num(4)

\* C8: in a run in which all step calls succeed, the step-4 response has
\* step = 4, progress = 100, nextStep = null, and data.researchSteps holds 4
\* summaries whose step fields are 0, 1, 2, 3 in that order
C8_EndToEnd ==
    (Responded /\ ValidRequest /\ ReqStep(req) = 4 /\ Succeeded = {0, 1, 2, 3}) =>
        /\ resp.status = 200
        /\ resp.body.step = 4
        /\ resp.body.progress = 100
        /\ resp.body.nextStep = Null
        /\ Len(resp.body.data.researchSteps) = 4
        /\ \A k \in 1..4 : resp.body.data.researchSteps[k].step = k - 1

\* a run in which all five calls succeeded has ended with a report of 4 summaries
C8_Witness ==
    /\ RunEnded
    /\ Succeeded = {0, 1, 2, 3, 4}
    /\ Len(allStepData[5].data.researchSteps) = 4

\* the request is a well-formed call of the final_report step
FinalReportRequest ==
    ValidRequest /\ currentStep(ReqStep(req)) = "final_report"

RECURSIVE SumSeq(_)
SumSeq(ns) == IF ns = <<>> THEN 0 ELSE Head(ns) + SumSeq(Tail(ns))

CarriesCitations(e) == ~IsNull(e) /\ Has(e, "data") /\ Has(e.data, "citations")
CarriesUsage(e) == ~IsNull(e) /\ Has(e, "data") /\ Has(e.data, "usage")

\* the sum of the citation counts of the entries that carry citations
ExpectedSources(h) ==
    SumSeq([k \in 1..Len(h) |->
                IF CarriesCitations(h[k]) THEN Len(h[k].data.citations) ELSE 0])

\* the sum of the total_tokens of the entries that carry a usage field
ExpectedTokens(h) ==
    SumSeq([k \in 1..Len(h) |->
                IF CarriesUsage(h[k]) /\ Has(h[k].data.usage, "total_tokens")
                THEN h[k].data.usage.total_tokens ELSE 0])

\* C9: the report of generateFinalReport(query, history) has totalSources = the
\* sum of the citation counts of the entries carrying citations and
\* totalTokens = the sum of the total_tokens of the entries carrying a usage
\* field; 5 citations / 120 tokens at step 0 and no citations / 80 tokens at
\* step 2 give 5 and 200
C9_Totals ==
    (Responded /\ FinalReportRequest /\ IsArray(ReqPreviousData(req))
     /\ resp.status = 200) =>
        LET h == ReqPreviousData(req).v
            report == resp.body.data
        IN  /\ report.totalSources = ExpectedSources(h)
            /\ report.totalTokens = ExpectedTokens(h)
            /\ h = <<Entry0, Entry2>> =>
                    report.totalSources = 5 /\ report.totalTokens = 200

\* the report of the history <<step 0: 5 citations, 120 tokens; step 2: 80 tokens>>
C9_Witness ==
    /\ Responded /\ FinalReportRequest
    /\ ReqPreviousData(req) = Arr(<<Entry0, Entry2>>)
    /\ resp.status = 200
    /\ resp.body.data.totalSources = 5
    /\ resp.body.data.totalTokens = 200

\* C10: step 4 tolerates an empty or partial history: with previousData null,
\* an empty list or a list of fewer than four StepResults it answers 200 with a
\* report; with a null or empty history the report has totalSources = 0,
\* totalTokens = 0 and no researchSteps
C10_TolerantReport ==
    (Responded /\ FinalReportRequest) =>
        LET pd == ReqPreviousData(req)
        IN  /\ (IsNull(pd) \/ (IsArray(pd) /\ Len(pd.v) < 4
                                /\ \A k \in 1..Len(pd.v) : IsStepResult(pd.v[k])))
                    => resp.status = 200 /\ IsFinalReport(resp.body.data)
            /\ (IsNull(pd) \/ (IsArray(pd) /\ pd.v = <<>>))
                    => /\ resp.body.data.totalSources = 0
                       /\ resp.body.data.totalTokens = 0
                       /\ resp.body.data.researchSteps = <<>>

\* a final_report request without history is answered with an empty report
C10_Witness ==
    /\ Responded /\ FinalReportRequest
    /\ IsNull(ReqPreviousData(req))
    /\ resp.status = 200
    /\ resp.body.data.researchSteps = <<>>

----------------------------------------------------------------------------
(* Properties of the citation post-processing *)

\* the citations that have been post-processed
Processed ==
    IF fnRet = Null THEN {}
    ELSE IF Has(fnArg, "citation") THEN {fnRet}
    ELSE IF Has(fnRet, "citations") THEN Range(fnRet.citations)
    ELSE {}

\* C11: after the post-processing every citation's relevanceScore and
\* trustScore lies in [0, 1] (0..1000 thousandths), at every position and for
\* every draw of the jitter
C11_ScoresInUnitInterval ==
    \A c \in Processed :
        /\ c.relevanceScore \in 0..1000
        /\ c.trustScore \in 0..1000

\* a url the post-processing accepts: a non-empty string
WellFormedUrl(c) == Has(c, "url") /\ IsString(c.url) /\ c.url.v # ""

\* a whole citation list has been post-processed
ListProcessed ==
    /\ fnRet # Null
    /\ Has(fnArg, "result")
    /\ Has(fnArg.result, "citations")

----------------------------------------------------------------------------
(* Error handling of the step interface *)

\* the request is a POST whose body was parsed and carries no query, or an
\* empty one
NoQuery ==
    /\ req # NoReq
    /\ req.method = "POST"
    /\ ~Has(req, "body")
    /\ (~Has(req, "query") \/ req.query = <<>>)

\* the body of a failure response
IsErrorBody(b) == DOMAIN b = {"error"}

\* C13: a request whose query is missing or empty is answered 400 { error }
\* and no adapter call is issued for it, whatever its step and previousData
C13_EmptyQueryRejected ==
    NoQuery =>
        /\ calls = FreshCalls
        /\ hpc \in {"recv", "done"}
        /\ hpc = "done" => (resp.status = 400 /\ IsErrorBody(resp.body))

\* an empty query with step 3 and a non-empty history
C13_Witness ==
    /\ NoQuery /\ Has(req, "query")
    /\ Has(req, "step") /\ req.step = 3
    /\ Has(req, "previousData") /\ IsArray(req.previousData)
    /\ Len(req.previousData.v) > 0
    /\ hpc = "done" /\ resp.status = 400

\* the body of a success response
IsStepResultBody(b) ==
    {"step", "stepName", "service", "data", "nextStep", "progress", "aiThoughts",
     "metadata"} \subseteq DOMAIN b

\* a 200 StepResult, a 400 input error or a 500 failure
Classified ==
    \/ resp.status = 200 /\ IsStepResultBody(resp.body)
    \/ resp.status = 400 /\ IsErrorBody(resp.body)
    \/ resp.status = 500 /\ IsErrorBody(resp.body)

\* C14: an invocation of the step interface has returned exactly when it has
\* a response; the response to a POST is a 200 StepResult, a 400 { error } or
\* a 500 { error }, also when an adapter call failed or the body could not be
\* parsed; once sent, the response is never replaced by a second one
C14_OneResponse ==
    /\ [](hpc = "done" <=> IsResponse(resp))
    /\ []((hpc = "done" /\ req.method = "POST") => Classified)
    /\ [][IsResponse(resp) => (resp' = resp /\ hpc' = hpc)]_vars

\* a body that is no JSON text has been answered 500 { error }
C14_Witness ==
    /\ hpc = "done"
    /\ Has(req, "body") /\ req.body = "unparsable"
    /\ IsResponse(resp) /\ resp.status = 500 /\ IsErrorBody(resp.body)

----------------------------------------------------------------------------
(* Adapter calls *)

\* the adapter calls issued so far by the invocation being served
IssuedCalls == { s \in Slots : calls[s].st # "none" }

\* the providers of each step: search, reasoning, classification, search and
\* reasoning, none
ExpectedCalls(i) ==
    CASE i = 0 -> {"perplexity"}
      [] i = 1 -> {"gemini"}
      [] i = 2 -> {"openai"}
      [] i = 3 -> {"perplexity", "gemini"}
      [] i = 4 -> {}

\* C15: an invocation of step 0, 1, 2 issues one adapter call (search,
\* reasoning, classification provider), of step 3 two (search and reasoning),
\* of step 4 none; an adapter call is issued only when the handler starts and
\* never again after it has settled, and the driver issues no step twice
C15_FixedCalls ==
    /\ []((req # NoReq /\ hpc \in {"await", "done"})
            => IssuedCalls = ExpectedCalls(req.step))
    /\ [][\A s \in Slots :
            calls'[s].st = "pending" => (calls[s].st = "pending" \/ hpc = "recv")]_vars
    /\ [](\A i, j \in DOMAIN issued : i # j => issued[i] # issued[j])

\* step 3 of a run in which an earlier step failed: both calls were issued,
\* the reasoning call failed and the step was answered 500
C15_Witness ==
    /\ issued = <<0, 1, 2, 3>>
    /\ Len(allStepData) < 3
    /\ hpc = "done" /\ resp.status = 500
    /\ calls["gemini"].st = "rejected"
    /\ IssuedCalls = {"perplexity", "gemini"}

----------------------------------------------------------------------------
(* The history of a run *)

\* handleSearch starts a run
RunStarts == pc \in {"idle", "ready"} /\ pc' = "thought"

\* C16: within a run the history allStepData changes only by the append of
\* the response to the call that has just returned (a new run starts with an
\* empty history of its own), and the previousData of the call in flight is
\* the whole history, or null when the history is empty
C16_AppendOnlyHistory ==
    /\ [][\/ allStepData' = allStepData
          \/ /\ pc = "invoke" /\ IsResponse(resp)
             /\ allStepData' = Append(allStepData, resp.body)
          \/ RunStarts /\ allStepData' = <<>>]_vars
    /\ [](req # NoReq =>
            req.previousData = IF Len(allStepData) = 0 THEN Null
                               ELSE Arr(allStepData))

\* the call of step 2 is in flight with the results of steps 0 and 1
C16_Witness ==
    /\ pc = "invoke" /\ req # NoReq
    /\ req.step = 2
    /\ Len(allStepData) = 2
    /\ allStepData[1].step = 0 /\ allStepData[2].step = 1
    /\ req.previousData = Arr(allStepData)

----------------------------------------------------------------------------
(* Idempotence of the step interface *)

\* the wrapping metadata of a StepResult
Wrapper(b) == <<b.step, b.stepName, b.service, b.progress>>

\* the outcomes of the adapter calls of a request in which every call succeeds
SuccessfulCalls(r) ==
    LET awaited == Awaited(currentStep(ReqStep(r)))
        resolved == UNION { { o \in Settlements(s) : o.st = "resolved" } : s \in Slots }
    IN  { c \in [Slots -> resolved \cup {NoCall}] :
            \A s \in Slots :
                IF s \in awaited
                THEN c[s] \in Settlements(s) /\ c[s].st = "resolved"
                ELSE c[s] = NoCall }

\* the StepResults another invocation of the handler with the same request
\* can answer with, whatever the providers answer to it
SecondInvocation(r) ==
    IF currentStep(ReqStep(r)) = "final_report"
    THEN LET finalReport == generateFinalReport(r.query, ReqPreviousData(r))
         IN  IF finalReport.ok
             THEN {FinalReportResult(finalReport.v, ReqPreviousData(r))}
             ELSE {}
    ELSE { BranchResult(r, c) : c \in SuccessfulCalls(r) }

\* C17: the StepResult answered to a request has the same step, stepName,
\* service and progress as the StepResult of any other invocation with the
\* same query, step and previousData, whatever the providers answer and
\* whatever invocations were served before
C17_Idempotent ==
    (ValidRequest /\ Responded /\ resp.status = 200) =>
        \A second \in SecondInvocation(req) : Wrapper(second) = Wrapper(resp.body)

\* step 0 answered with a payload that has citations, while another
\* invocation of the same request can get a payload without citations
C17_Witness ==
    /\ ValidRequest /\ Responded /\ resp.status = 200
    /\ resp.body.step = 0
    /\ Has(resp.body.data, "citations")
    /\ \E second \in SecondInvocation(req) : ~Has(second.data, "citations")

----------------------------------------------------------------------------
(* Cross references of step 3 *)

\* the catalog: fact_verification 0.92, semantic_consistency 0.88,
\* classification_accuracy 0.95
Catalog ==
    << [type |-> "fact_verification", confidence |-> 920,
        sources |-> <<"Perplexity", "Gemini">>],
       [type |-> "semantic_consistency", confidence |-> 880,
        sources |-> <<"Gemini", "OpenAI">>],
       [type |-> "classification_accuracy", confidence |-> 950,
        sources |-> <<"OpenAI", "Perplexity">>] >>

\* step 3 has answered with a StepResult
Step3Answered == Step3Request /\ Responded /\ resp.status = 200

\* C19 as claimed: the crossReferences of step 3 are the catalog of three
\* records for every history, a null history included
C19_CatalogAlways ==
    Step3Answered => resp.body.data.crossReferences = Catalog

\* C19: the crossReferences of step 3 are the catalog of three records for
\* every history that is not null (the empty list included), and the empty
\* list for a history that is null or absent
C19_CatalogUnlessNull ==
    Step3Answered =>
        resp.body.data.crossReferences =
            IF IsNull(ReqPreviousData(req)) THEN <<>> ELSE Catalog

\* step 3 answered a request with a null history, without cross references
C19_Witness ==
    /\ Step3Answered
    /\ Has(req, "previousData") /\ IsNull(req.previousData)
    /\ resp.body.data.crossReferences = <<>>

----------------------------------------------------------------------------
(* Progress of a run *)

\* the call of a step has failed: the catch block of the loop body runs
StepFails ==
    /\ pc = "invoke"
    /\ pc' = "pause"
    /\ Len(allStepData') = Len(allStepData)

----------------------------------------------------------------------------
(* Two overlapping runs *)

\* handleSearch is not guarded by isLoading: a second call while a run is in
\* progress starts a second executeMultiStepResearch with locals of its own.
\* The variables pc .. resp hold the run whose continuation runs next, other
\* holds the run that is suspended at an await.

\* the number of thought timers of its last step the running run may still
\* have to wait for when the second run is started
MaxOverlapThoughts == 1

\* the answers of the providers while two runs overlap: every call succeeds,
\* with one payload for each provider
OverlapSettlements(slot) ==
    CASE slot = "perplexity" ->
            { Resolved(EnhanceCitations(
                    [choices |-> <<"p">>, citations |-> <<[title |-> "a"]>>,
                     usage |-> [total_tokens |-> 120]], <<<<0, 0>>>>)) }
      [] slot = "gemini" -> { Resolved(raw) : raw \in GeminiUpstream }
      [] slot = "openai" ->
            { Resolved([choices |-> <<"o">>, usage |-> [total_tokens |-> 80]]) }

\* the locals of the run in the variables, as they are kept while it is
\* suspended
Suspended ==
    [pc |-> pc, stepIndex |-> stepIndex, thoughtIndex |-> thoughtIndex,
     allStepData |-> allStepData, issued |-> issued,
     req |-> req, hpc |-> hpc, calls |-> calls, resp |-> resp]

\* a history that is one list of the component, shared by the runs
OwnHistory_Shared(run) == allStepData

\* the history a suspended run finds when it is resumed: allStepData is
\* declared inside executeMultiStepResearch
OwnHistory(run) == run.allStepData

\* handleSearch is called while a run is in progress
handleSearchAgain ==
    /\ pc \notin {"idle", "ready"}
    /\ other = NoRun
    /\ stepIndex = NumSteps - 1
    /\ ThoughtCount(variant, stepIndex) - thoughtIndex <= MaxOverlapThoughts
    /\ Trim(query) # <<>>
    /\ other' = Suspended
    /\ isLoading' = TRUE
    /\ progress' = 0
    /\ currentPhase' = 0
    /\ completedPhases' = <<>>
    /\ thinkingSteps' = <<>>
    /\ results' = Null
    /\ allStepData' = <<>>
    /\ stepIndex' = 0
    /\ status' = StatusOf(0)
    /\ graphNodes' = updateGraphNodeStatus(variant, graphNodes, 0, "active")
    /\ thoughtIndex' = 0
    /\ issued' = <<>>
    /\ pc' = "thought"
    /\ req' = NoReq
    /\ hpc' = "idle"
    /\ calls' = FreshCalls
    /\ resp' = NoResp
    /\ UNCHANGED <<variant, query, pureVars>>

\* the event loop resumes the continuation of the other run: a timer of its
\* thought loop or its pause, or the return of its invoke
switchRun ==
    /\ other # NoRun
    /\ other.pc # "ready"
    /\ other' = Suspended
    /\ pc' = other.pc
    /\ stepIndex' = other.stepIndex
    /\ thoughtIndex' = other.thoughtIndex
    /\ allStepData' = OwnHistory(other)
    /\ issued' = other.issued
    /\ req' = other.req
    /\ hpc' = other.hpc
    /\ calls' = other.calls
    /\ resp' = other.resp
    /\ UNCHANGED <<variant, query, isLoading, progress, currentPhase,
                   completedPhases, thinkingSteps, results, status, graphNodes,
                   pureVars>>

InitOverlap ==
    /\ variant = "plain"
    /\ query = <<"c", "p">>
    /\ isLoading = FALSE
    /\ progress = 0
    /\ currentPhase = 0
    /\ completedPhases = <<>>
    /\ thinkingSteps = <<>>
    /\ results = Null
    /\ status = "ready"
    /\ graphNodes = InitialNodes
    /\ pc = "idle"
    /\ stepIndex = 0
    /\ thoughtIndex = 0
    /\ allStepData = <<>>
    /\ issued = <<>>
    /\ req = NoReq
    /\ hpc = "idle"
    /\ calls = FreshCalls
    /\ resp = NoResp
    /\ fnArg = Null
    /\ fnRet = Null
    /\ other = NoRun

\* a third run is started only when both runs have ended
NextOverlap ==
    \/ handleSearch /\ (other = NoRun \/ other.pc = "ready")
    \/ handleSearchAgain
    \/ switchRun
    \/ thoughtTimer
    \/ invokeReturn
    \/ pauseTimer
    \/ HandlerEnter
    \/ \E slot \in Slots :
          AdapterSettle(slot) /\ calls'[slot] \in OverlapSettlements(slot)

\* the UI driver with a second run started while the first is in its last
\* step, and the edge-function invocations serving the two
SpecOverlap == InitOverlap /\ [][NextOverlap]_vars

----------------------------------------------------------------------------
(* Non-interference of overlapping runs *)

\* h is the chain of the responses to the calls of one run: the steps grow,
\* and every StepResult that echoes its previousData echoes the entries
\* before it (null when there is none)
OwnChain(h) ==
    /\ \A k \in 2..Len(h) : h[k].step > h[k - 1].step
    /\ \A k \in 1..Len(h) :
          Has(h[k], "previousData") =>
              h[k].previousData = IF k = 1 THEN Null ELSE Arr(SubSeq(h, 1, k - 1))

\* the call in flight r of a run with history h carries that history
OwnRequest(r, h) ==
    r # NoReq => r.previousData = IF Len(h) = 0 THEN Null ELSE Arr(h)

\* the event loop passes from one run to the other
Switches == other # NoRun /\ other' # other

\* C18: with two runs overlapping, under every interleaving of their steps,
\* the history of each run holds only the responses to that run's own calls
\* and the call in flight of each run carries that run's history; a step of
\* one run leaves the history of the other untouched, and a run that is
\* resumed finds the history it had when it was suspended
C18_OwnHistory ==
    /\ [](OwnChain(allStepData) /\ OwnRequest(req, allStepData))
    /\ [](other # NoRun =>
            OwnChain(other.allStepData) /\ OwnRequest(other.req, other.allStepData))
    /\ [][(other # NoRun /\ other' # NoRun) =>
            IF Switches
            THEN /\ allStepData' = other.allStepData
                 /\ other'.allStepData = allStepData
            ELSE other'.allStepData = other.allStepData]_vars

\* the final response of the first run has just been appended to its history
\* while the second run, with one result in its own history, has its step-1
\* call in flight
C18_Witness ==
    /\ other # NoRun
    /\ pc = "pause" /\ stepIndex = NumSteps - 1 /\ Len(allStepData) = 5
    /\ other.pc = "invoke" /\ other.stepIndex = 1
    /\ Len(other.allStepData) = 1
    /\ other.req.previousData = Arr(other.allStepData)

----------------------------------------------------------------------------
(* Context threading *)

\* the previousData of the request, null when it carries none
SentHistory == IF Has(req, "previousData") THEN req.previousData ELSE Null

\* the adapter call s of the invocation is outstanding
Outstanding(s) == calls[s].st = "pending"

\* the step the request is executed as
ExecutedStep == IF ReqStep(req) \in 0..4 THEN ReqStep(req) ELSE 0

\* C21: the search-provider call (step 0 and step 3) is given the query and
\* no history; the reasoning-provider call (step 1 and step 3) and the
\* classification-provider call (step 2) are given the whole previousData
\* of the request
C21_ContextThreading ==
    (ValidRequest /\ hpc = "await") =>
        /\ Outstanding("perplexity") =>
              /\ ExecutedStep \in {0, 3}
              /\ ~Has(calls["perplexity"].args, "previousData")
              /\ calls["perplexity"].args.query = req.query
        /\ Outstanding("gemini") =>
              /\ ExecutedStep \in {1, 3}
              /\ calls["gemini"].args.previousData = SentHistory
        /\ Outstanding("openai") =>
              /\ ExecutedStep = 2
              /\ calls["openai"].args.previousData = SentHistory

\* step 3 with a history of one entry or more: both calls outstanding, the
\* reasoning call with the history, the search call without
C21_Witness ==
    /\ ValidRequest /\ hpc = "await" /\ ExecutedStep = 3
    /\ IsArray(SentHistory) /\ Len(SentHistory.v) > 0
    /\ Outstanding("perplexity") /\ Outstanding("gemini")
    /\ calls["gemini"].args.previousData = SentHistory
    /\ ~Has(calls["perplexity"].args, "previousData")

----------------------------------------------------------------------------
(* The step summaries of the final report *)

\* the final report was built from a history list
ReportBuilt ==
    /\ Responded /\ FinalReportRequest
    /\ IsArray(SentHistory)
    /\ resp.status = 200

\* the confidence an entry declares in its metadata, 0.8 when it declares none
DeclaredConfidence(e) ==
    IF Has(e, "metadata") /\ Has(e.metadata, "confidence")
    THEN e.metadata.confidence ELSE 800

\* C22: the researchSteps of the report holds one summary for each entry of
\* the history, in history order, with the confidence the entry declares in
\* its metadata, and 0.8 only when it declares none
C22_DeclaredConfidence ==
    ReportBuilt =>
        LET h == SentHistory.v
            summaries == resp.body.data.researchSteps
        IN  /\ Len(summaries) = Len(h)
            /\ \A k \in 1..Len(h) :
                  /\ Has(h[k], "step") => summaries[k].step = h[k].step
                  /\ summaries[k].confidence = DeclaredConfidence(h[k])

----------------------------------------------------------------------------
(* The history and the failed steps *)

\* the step calls of the run that have succeeded so far: the driver narrates
\* each with its success messages
Successes ==
    Cardinality({ k \in DOMAIN thinkingSteps :
                    thinkingSteps[k][2] = "ok" /\ thinkingSteps[k][3] = 1 })

\* the call in flight returns to the driver
CallReturns == pc = "invoke" /\ pc' # "invoke"

\* C23: the history has one entry for each step call that has succeeded and
\* none for a call that has failed: the return of a call appends an entry
\* exactly when the call was answered 200; every entry is the StepResult of
\* an earlier or the current step, and the report of a successful step 4 has
\* as many summaries as entries precede it
C23_FailuresLeaveNoEntry ==
    /\ [](Len(allStepData) = Successes)
    /\ [][CallReturns =>
            Len(allStepData') = Len(allStepData) +
                (IF IsResponse(resp) /\ resp.status = 200 THEN 1 ELSE 0)]_vars
    /\ [](\A k \in 1..Len(allStepData) :
            /\ IsStepResult(allStepData[k])
            /\ allStepData[k].step <= stepIndex
            /\ allStepData[k].step = 4 =>
                  Len(allStepData[k].data.researchSteps) = k - 1)

\* a run has ended in which step 4 succeeded and exactly two of the steps
\* 0..3 failed
C23_Witness ==
    /\ RunEnded
    /\ Len(allStepData) = 3
    /\ allStepData[3].step = 4
    /\ Len(allStepData[3].data.researchSteps) = 2

----------------------------------------------------------------------------
(* Step indices out of range *)

\* the request carries a query and a step that is none of 0..4
StepOutOfRange == ValidRequest /\ Has(req, "step") /\ req.step \notin 0..4

\* C24: a request whose step is none of 0..4 is not rejected as an input
\* error: the search provider is called once, and when that call succeeds
\* the response is the StepResult of step 0 (step 0, nextStep 1, progress 20)
C24_OutOfRangeIsStepZero ==
    StepOutOfRange =>
        /\ hpc # "recv" => IssuedCalls = {"perplexity"}
        /\ Responded =>
              /\ resp.status # 400
              /\ calls["perplexity"].st = "resolved" =>
                    /\ resp.status = 200
                    /\ resp.body.step = 0
                    /\ resp.body.nextStep = Num(1)
                    /\ resp.body.progress = 20
                    /\ resp.body.service = "Perplexity"

\* step 5 answered with the StepResult of step 0
C24_Witness ==
    /\ StepOutOfRange /\ req.step = 5
    /\ Responded /\ resp.status = 200
    /\ resp.body.step = 0 /\ resp.body.progress = 20

----------------------------------------------------------------------------
(* The component state under a second call of handleSearch *)

\* a run is in progress: the one running or the suspended one
RunInProgress ==
    \/ pc \notin {"idle", "ready"}
    \/ other # NoRun /\ other.pc # "ready"

\* handleSearch is called while a run is in progress
SecondRunStarts == pc \notin {"idle", "ready"} /\ other = NoRun /\ other' # NoRun

\* C25: isLoading is true while a run is in progress, also when handleSearch
\* is called again during a run, and the second call leaves the progress,
\* the thinkingSteps and the results of the run in progress as they are
C25_LoadingWhileRunning ==
    /\ [](RunInProgress => isLoading)
    /\ [][SecondRunStarts =>
            /\ progress' = progress
            /\ thinkingSteps' = thinkingSteps
            /\ results' = results]_vars

----------------------------------------------------------------------------
(* The phase nodes of the graph driver *)

----------------------------------------------------------------------------
(* The report of a fully successful run *)

\* the run has ended and each of its five calls was answered with a result
FullRun == RunEnded /\ Len(allStepData) = NumSteps

\* the citations and the tokens a provider payload carries at its top level
PayloadCitations(p) == IF Has(p, "citations") THEN Len(p.citations) ELSE 0
PayloadTokens(p) ==
    IF Has(p, "usage") /\ Has(p.usage, "total_tokens")
    THEN p.usage.total_tokens ELSE 0

\* C27: in the report of a fully successful run totalSources is the citation
\* count of the step-0 result alone and totalTokens is the token usage of the
\* results of steps 0 and 2: the citations and the usage of the search
\* payload that step 3 stores under data.validation are not added
C27_NestedNotCounted ==
    FullRun =>
        LET report == allStepData[5].data
        IN  /\ allStepData[4].data.validation \in
                    { c.v : c \in { x \in callPerplexity : x.st = "resolved" } }
            /\ report.totalSources = PayloadCitations(allStepData[1].data)
            /\ report.totalTokens = PayloadTokens(allStepData[1].data)
                                      + PayloadTokens(allStepData[3].data)

\* a fully successful run whose step-3 search payload carries a citation and
\* a token usage while the step-0 payload carries neither
C27_Witness ==
    /\ FullRun
    /\ PayloadCitations(allStepData[4].data.validation) = 1
    /\ PayloadTokens(allStepData[4].data.validation) = 120
    /\ PayloadCitations(allStepData[1].data) = 0
    /\ PayloadTokens(allStepData[1].data) = 0
    /\ allStepData[5].data.totalSources = 0

\* the run's history ends with the answer of the final_report step
ReportInHistory ==
    /\ allStepData # <<>>
    /\ allStepData[Len(allStepData)].step = 4

\* the confidence the report is to record for the result of step i
SummaryConfidence(i) ==
    CASE i = 0 -> 750
      [] i = 1 -> 850
      [] i = 2 -> 900
      [] i = 3 -> 800

\* C28: the summary that the report records for a step-3 result has
\* confidence 0.8, the 0.95 that step 3 publishes as metadata.finalConfidence
\* not being read, whereas the results of steps 0, 1 and 2 are summarised
\* with 0.75, 0.85 and 0.9
C28_Step3Summary ==
    ReportInHistory =>
        LET n == Len(allStepData)
            summaries == allStepData[n].data.researchSteps
        IN  /\ Len(summaries) = n - 1
            /\ \A k \in 1..(n - 1) :
                  /\ summaries[k].step = allStepData[k].step
                  /\ summaries[k].confidence =
                        SummaryConfidence(allStepData[k].step)
                  /\ allStepData[k].step = 3 =>
                        /\ allStepData[k].metadata.finalConfidence = 950
                        /\ ~Has(allStepData[k].metadata, "confidence")

\* a fully successful run whose report summarises the step-3 result with 0.8
C28_Witness ==
    /\ FullRun
    /\ allStepData[4].step = 3
    /\ allStepData[4].metadata.finalConfidence = 950
    /\ allStepData[5].data.researchSteps[4].step = 3
    /\ allStepData[5].data.researchSteps[4].confidence = 800
    /\ allStepData[5].data.researchSteps[1].confidence = 750

----------------------------------------------------------------------------
(* Termination of a run *)

\* executeMultiStepResearch is between its start and its end
Running == pc \in {"thought", "invoke", "pause"}

\* an iteration of the loop ends: its phase is recorded as completed
IterationEnds == completedPhases' # completedPhases /\ ~RunStarts

\* C29: every run terminates when each step call returns or fails: a run
\* in progress leads to a run that has ended; the run that has ended has
\* performed the five iterations 0, 1, 2, 3, 4, each once, and has status
\* "ready", progress 100 and isLoading false; an iteration ends only by
\* recording the step it is at and the step index moves only to the next
\* step, whatever the call of the step has done
C29_Terminates ==
    /\ Running ~> RunEnded
    /\ [](RunEnded =>
            /\ completedPhases = <<0, 1, 2, 3, 4>>
            /\ issued = <<0, 1, 2, 3, 4>>
            /\ stepIndex = NumSteps
            /\ status = "ready"
            /\ progress = 100 * ProgressUnit
            /\ ~isLoading)
    /\ [][/\ IterationEnds =>
               /\ completedPhases' = Append(completedPhases, stepIndex)
               /\ Len(completedPhases) = stepIndex
               /\ pc = "invoke" /\ pc' = "pause"
          /\ (stepIndex' # stepIndex /\ ~RunStarts) =>
               /\ stepIndex' = stepIndex + 1
               /\ pc = "pause"
               /\ Len(completedPhases) = stepIndex + 1]_vars

\* a run has ended in which the calls of steps 1 and 3 failed and the others
\* were answered
C29_Witness ==
    /\ RunEnded
    /\ Succeeded = {0, 2, 4}
    /\ completedPhases = <<0, 1, 2, 3, 4>>
    /\ progress = 100 * ProgressUnit
    /\ ~isLoading

----------------------------------------------------------------------------
(* The echo of previousData *)

\* the handler has answered the request with a StepResult
AnsweredWithResult == Responded /\ ValidRequest /\ resp.status = 200

\* C30: the response of every step i >= 1 echoes the previousData of the
\* request unchanged and the step-0 response has no previousData field; the
\* driver appending whole responses, the history entry of a step i >= 1 holds
\* in its previousData the entries before it (null when there is none), so
\* that each entry nests all the earlier ones
C30_EchoNesting ==
    /\ AnsweredWithResult =>
          IF currentStep(ReqStep(req)) = "initial_research"
          THEN ~Has(resp.body, "previousData")
          ELSE /\ Has(resp.body, "previousData")
               /\ resp.body.previousData = ReqPreviousData(req)
               /\ resp.body.previousData =
                     IF allStepData = <<>> THEN Null ELSE Arr(allStepData)
    /\ \A k \in 1..Len(allStepData) :
          IF allStepData[k].step = 0
          THEN k = 1 /\ ~Has(allStepData[k], "previousData")
          ELSE /\ Has(allStepData[k], "previousData")
               /\ allStepData[k].previousData =
                     IF k = 1 THEN Null ELSE Arr(SubSeq(allStepData, 1, k - 1))

\* a fully successful run has ended: the last entry of its history holds the
\* four entries before it, and through them the step-0 entry at every depth
C30_Witness ==
    /\ FullRun
    /\ ~Has(allStepData[1], "previousData")
    /\ allStepData[5].previousData = Arr(SubSeq(allStepData, 1, 4))
    /\ allStepData[5].previousData.v[4].previousData.v[3].previousData.v[2]
            .previousData.v[1] = allStepData[1]

====
